---- MODULE Spec2Model ----
(***************************************************************************)
(* Incident correlation in sentinelai.                                     *)
(*                                                                         *)
(*  - the EIDO agent's store (eido-agent/services/database.py): the        *)
(*    eido_reports and incidents tables and the operations on them;        *)
(*  - the IDX agent's categorizer loop (idx-agent/services/categorizer.py) *)
(*    and the thread control around it (idx-agent/api/main.py);            *)
(*  - the deterministic matcher (eido-agent/agent/matching.py).            *)
(*                                                                         *)
(* Time is counted in hours.  Coordinates are points on one meridian, in   *)
(* kilometres from a reference point, so that the great-circle distance of *)
(* two points is the absolute difference of their positions.               *)
(***************************************************************************)
EXTENDS Integers, Sequences, FiniteSets, TLC

(***************************************************************************)
(* Bounds of the model.                                                    *)
(***************************************************************************)
MaxReports == 2

MaxIncidents == 2

MaxThreads == 2

MaxClock == 5

(***************************************************************************)
(* Program constants.                                                      *)
(***************************************************************************)
\* Python's None for an identifier (Optional[str] = None, a NULL column).
None == 0

\* IncidentCategorizer.__init__
time_window_hours == 4

distance_threshold_km == 5

\* haversine: radius of the earth in kilometres; float('inf') is modelled by a
\* length no two points of the earth are apart.
r == 6371

Infinity == 4 * r

\* A well-formed incident id that names no row of the incidents table.
UnknownIncidentId == MaxIncidents + 1

EidoIds == 1..MaxReports

IncidentIds == 1..MaxIncidents

\* Every value a caller can pass as incident_id.
IncidentIdInputs == {None} \cup IncidentIds \cup {UnknownIncidentId}

\* Positions (km) of the places reports come from; None: no coordinates.
Places == {1, 11}

Threads == 1..MaxThreads

VARIABLES
    \* ---- EIDO agent database ----
    reports,            \* eido_id -> row of eido_reports
    incidents,          \* incident_id -> row of incidents
    nextEidoId,         \* uuid4(): identifiers are never reused
    nextIncidentId,
    now,                \* datetime.utcnow()
    \* ---- IDX agent: api/main.py ----
    categorizer_thread, \* None or the thread started last
    stop_categorizer_event,
    enabled_flag,       \* the file categorizer_enabled.flag exists
    restart_flag,       \* the file restart_categorizer.flag exists
    watcher,            \* where watch_for_restart_signal stands
    \* ---- IDX agent: deployment ----
    llm_provider,       \* "none" (get_llm_client raised), "google", "openai"
    eido_id_key,        \* the /eidos records carry the key "eido_id"
    \* ---- IDX agent: one categorizer thread each ----
    pc,
    eidos,              \* the list fetched this cycle, not yet processed
    eido,               \* the record being processed
    potential_matches,
    llm_decision,
    linkCount,          \* history: engine link commits that succeeded, per report
    failedCommit,       \* history: per thread, reports whose commit failed
    \* ---- matching.py, exercised on its own ----
    m_core,
    m_incidents,
    m_result,
    m_similarity,       \* what calculate_similarity gave for one incident
    \* ---- find_potential_matches, exercised on its own ----
    f_eido,             \* new_eido
    f_incidents,        \* active_incidents
    f_config,           \* self.time_window_hours, self.distance_threshold_km
    f_result,
    \* ---- EIDO agent: services/local_geocoder.py ----
    locations_data,     \* the dict kept in data/geocoded_locations.json
    g_call              \* history: the last call and what it returned

storeVars == <<reports, incidents, nextEidoId, nextIncidentId, now>>

controlVars == <<categorizer_thread, stop_categorizer_event, enabled_flag, restart_flag,
                 watcher>>

deployVars == <<llm_provider, eido_id_key>>

threadVars == <<pc, eidos, eido, potential_matches, llm_decision, failedCommit>>

geoVars == <<locations_data, g_call>>

filterVars == <<f_eido, f_incidents, f_config, f_result, geoVars>>

matchVars == <<m_core, m_incidents, m_result, m_similarity, filterVars>>

vars == <<storeVars, controlVars, deployVars, threadVars, linkCount, matchVars>>

(***************************************************************************)
(* The store: eido-agent/services/database.py                              *)
(***************************************************************************)
Drop(f, k) == [x \in (DOMAIN f) \ {k} |-> f[x]]

Put(f, k, v) == [x \in (DOMAIN f) \cup {k} |-> IF x = k THEN v ELSE f[x]]

\* The state of the two tables, as one value.
Db == [reports |-> reports, incidents |-> incidents]

\* models.EidoReport as create_eido_report fills it.
EidoReport(location, incident_id) ==
    [ incident_id_fk |-> incident_id,
      location |-> location,
      timestamp |-> now,
      status |-> IF incident_id # None THEN "linked" ELSE "uncategorized" ]

\* The names and tags that requests give to incidents.
Names == {"name", "renamed"}

Tags == {"fire"}

\* models.Incident: created_at and updated_at default to utcnow.
Incident(status, locations) ==
    [ status |-> status,
      locations |-> locations,
      name |-> "name",
      tags |-> {},
      created_at |-> now,
      updated_at |-> now ]

\* create_incident_from_eido: the incident takes the EIDO's coordinates.
create_incident_from_eido(db, location) ==
    [ db EXCEPT !.incidents =
        Put(@, nextIncidentId,
            Incident("open", IF location = None THEN {} ELSE {location})) ]

\* create_empty_incident: locations=[].
create_empty_incident(db) ==
    [ db EXCEPT !.incidents = Put(@, nextIncidentId, Incident("open", {})) ]

\* delete_eido_report
delete_eido_report(db, eido_id) ==
    [ db EXCEPT !.reports = Drop(@, eido_id) ]

\* delete_incident: the incident's reports go with it.
delete_incident(db, incident_id) ==
    [ reports |-> [ e \in { x \in DOMAIN db.reports :
                             db.reports[x].incident_id_fk # incident_id }
                    |-> db.reports[e] ],
      incidents |-> Drop(db.incidents, incident_id) ]

\* update_incident_status: a missing incident is left alone; the UPDATE
\* fires onupdate=utcnow on updated_at.
update_incident_status(db, incident_id, new_status) ==
    IF incident_id \in DOMAIN db.incidents
    THEN [ db EXCEPT !.incidents[incident_id].status = new_status,
                     !.incidents[incident_id].updated_at = now ]
    ELSE db

\* bulk_recategorize_eidos with an UPDATE that sets the reference and leaves
\* the status of the rows.
bulk_recategorize_keeping_status(db, eido_ids, target_incident_id) ==
    [ reports |-> [ e \in DOMAIN db.reports |->
                      IF e \in eido_ids
                      THEN [ db.reports[e] EXCEPT !.incident_id_fk = target_incident_id ]
                      ELSE db.reports[e] ],
      incidents |-> [ i \in DOMAIN db.incidents |->
                      IF i = target_incident_id
                      THEN [ db.incidents[i] EXCEPT !.updated_at = now ]
                      ELSE db.incidents[i] ] ]

\* bulk_recategorize_eidos: UPDATE eido_reports ... WHERE eido_id IN eido_ids,
\* then UPDATE incidents SET updated_at WHERE incident_id = target.
bulk_recategorize_eidos(db, eido_ids, target_incident_id) ==
    [ reports |-> [ e \in DOMAIN db.reports |->
                      IF e \in eido_ids
                      THEN [ db.reports[e] EXCEPT !.incident_id_fk = target_incident_id,
                                                  !.status = "linked" ]
                      ELSE db.reports[e] ],
      incidents |-> [ i \in DOMAIN db.incidents |->
                      IF i = target_incident_id
                      THEN [ db.incidents[i] EXCEPT !.updated_at = now ]
                      ELSE db.incidents[i] ] ]

\* add_tag_to_incident: commits only when the tag is new; the UPDATE fires
\* onupdate=utcnow on updated_at.
add_tag_to_incident(db, incident_id, tag) ==
    IF incident_id \in DOMAIN db.incidents /\ tag \notin db.incidents[incident_id].tags
    THEN [ db EXCEPT !.incidents[incident_id].tags = @ \cup {tag},
                     !.incidents[incident_id].updated_at = now ]
    ELSE db

\* rename_incident: the commit of an unchanged name issues no UPDATE.
rename_incident(db, incident_id, new_name) ==
    IF incident_id \in DOMAIN db.incidents /\ new_name # db.incidents[incident_id].name
    THEN [ db EXCEPT !.incidents[incident_id].name = new_name,
                     !.incidents[incident_id].updated_at = now ]
    ELSE db

\* A save that replaces the stored locations by the caller's list.
save_incident_replacing(db, incident_id, p_locations) ==
    IF incident_id \in DOMAIN db.incidents
    THEN [ db EXCEPT !.incidents[incident_id].locations = p_locations ]
    ELSE db

\* IncidentStore.save_incident(p_incident), storage.py: the SELECT compares
\* the Integer column Incident.id with a UUID; were a row found, the
\* assignments to locations_coords and last_updated_at set no column, and the
\* DELETE reads EidoReport.incident_id, which the model class lacks; were no
\* row found, the Incident constructor rejects last_updated_at.  Every path
\* raises inside get_db_session, which rolls back.
save_incident(db, incident_id, p_locations) == db

\* What the database lets a link request do: both commits, the first commit
\* only (the incident is inserted, the report update is lost), or neither.
CommitOutcomes == {"ok", "partial", "fail"}

\* link_eido_to_incident(db, eido_id, incident_id, incident_details).
\* has_details: the request carries a valid IncidentCreateDetails.
link_eido_to_incident(db, eido_id, incident_id, has_details, outcome) ==
    IF eido_id \notin DOMAIN db.reports THEN db
    ELSE IF incident_id = None /\ ~has_details THEN db
    ELSE IF outcome = "fail" THEN db
    ELSE IF incident_id = None
         THEN LET created == [ db EXCEPT !.incidents =
                                 Put(@, nextIncidentId, Incident("open", {})) ]
              IN  IF outcome = "partial" THEN created
                  ELSE [ created EXCEPT !.reports[eido_id].incident_id_fk = nextIncidentId,
                                        !.reports[eido_id].status = "linked" ]
         ELSE IF outcome = "partial" THEN db
              ELSE [ db EXCEPT !.reports[eido_id].incident_id_fk = incident_id,
                               !.reports[eido_id].status = "linked" ]

\* The request inserts a row into incidents.
LinkCreates(db, eido_id, incident_id, has_details, outcome) ==
    /\ eido_id \in DOMAIN db.reports
    /\ incident_id = None /\ has_details
    /\ outcome # "fail"

\* get_all_incidents(db, status): the ids of the rows selected.
get_all_incidents(db, status) ==
    { i \in DOMAIN db.incidents : status = "" \/ db.incidents[i].status = status }

\* The rows of get_eidos_by_status(db, status), as the public records
\* (_db_eido_to_public_pydantic), in one order the query allows:
\* ORDER BY timestamp DESC, rows of one timestamp in any order.
EidoRecord(db, e) ==
    [ id |-> e, location |-> db.reports[e].location, timestamp |-> db.reports[e].timestamp ]

SeqsOver(S) == UNION { [1..n -> S] : n \in 0..Cardinality(S) }

get_eidos_by_status(db, status) ==
    LET rows == { e \in DOMAIN db.reports : status = "" \/ db.reports[e].status = status }
    IN  { s \in SeqsOver({ EidoRecord(db, e) : e \in rows }) :
            /\ Len(s) = Cardinality(rows)
            /\ \A i, j \in 1..Len(s) :
                 i < j => /\ s[i] # s[j]
                          /\ s[i].timestamp >= s[j].timestamp }


(***************************************************************************)
(* The categorizer: idx-agent/services/categorizer.py                      *)
(***************************************************************************)
Abs(x) == IF x < 0 THEN -x ELSE x

\* haversine(lat1, lon1, lat2, lon2) for two points of one meridian.
haversine(p, q) ==
    IF p = None \/ q = None THEN Infinity ELSE Abs(p - q)

\* fetch_uncategorized_eidos: GET /eidos?status=uncategorized; an HTTP or
\* connection error gives [].
fetch_uncategorized_eidos(db) ==
    get_eidos_by_status(db, "uncategorized") \cup {<<>>}

\* fetch_active_incidents asking for GET /incidents, without the status.
fetch_all_incidents(db) ==
    { get_all_incidents(db, ""), {} }

\* fetch_active_incidents: GET /incidents?status=open; an HTTP or connection
\* error gives [].
fetch_active_incidents(db) ==
    { get_all_incidents(db, "open"), {} }

\* A timestamp as a JSON record carries it: a string that fromisoformat
\* accepts, a string that it rejects, or null (or no such key).
Iso(t) == [ kind |-> "iso", value |-> t ]

InvalidTime == [ kind |-> "invalid", value |-> None ]

MissingTime == [ kind |-> "missing", value |-> None ]

\* How a call of find_potential_matches ends: with the list it returns or
\* with an exception that leaves it.
Returns(matches) == [ kind |-> "return", exception |-> "", matches |-> matches ]

Raises(exception) == [ kind |-> "raise", exception |-> exception, matches |-> {} ]

\* The incident is further from the report in time than the window.
beyond_time_window(new_time, incident_time, window_hours) ==
    Abs(new_time - incident_time) > window_hours

\* The incident is not skipped:
\* not abs((new_time - incident_time).total_seconds()) > window * 3600.
in_time_window(new_time, incident_time, window_hours) ==
    Abs(new_time - incident_time) <= window_hours

\* find_potential_matches(new_eido, active_incidents) of a categorizer with
\* self.time_window_hours = window_hours, self.distance_threshold_km =
\* threshold_km.  active_incidents maps ids to records.  A report without
\* location or timestamp gives []; so does one whose timestamp does not parse
\* (ValueError, caught).  An incident whose created_at does not parse is
\* skipped; one without created_at makes None.replace raise AttributeError,
\* which the except clause (ValueError, TypeError) does not catch.
find_potential_matches_with(new_eido, active_incidents, window_hours, threshold_km) ==
    IF new_eido.location = None \/ new_eido.timestamp.kind = "missing" THEN Returns({})
    ELSE IF new_eido.timestamp.kind = "invalid" THEN Returns({})
    ELSE IF \E i \in DOMAIN active_incidents :
              active_incidents[i].created_at.kind = "missing"
         THEN Raises("AttributeError")
    ELSE Returns({ i \in DOMAIN active_incidents :
                     /\ active_incidents[i].created_at.kind = "iso"
                     /\ in_time_window(new_eido.timestamp.value,
                                       active_incidents[i].created_at.value, window_hours)
                     /\ \E loc \in active_incidents[i].locations :
                          haversine(new_eido.location, loc) <= threshold_km })

\* The record GET /incidents serves for a row (IncidentPublic): created_at
\* is always there, updated_at is not served.
IncidentPublic(db, i) ==
    [ created_at |-> Iso(db.incidents[i].created_at),
      locations |-> db.incidents[i].locations ]

\* find_potential_matches(new_eido, active_incidents) on records of the EIDO
\* agent: the ids of the incidents kept.
find_potential_matches(db, new_eido, active_incidents) ==
    find_potential_matches_with(
        [ location |-> new_eido.location, timestamp |-> Iso(new_eido.timestamp) ],
        [ i \in active_incidents |-> IncidentPublic(db, i) ],
        time_window_hours, distance_threshold_km).matches

\* The value get_incident_match_from_llm returns.
\*   kind "None":      None (the call raised, or the text is not JSON)
\*   kind "falsy":     a JSON value Python takes as false ({} [] 0 "" null)
\*   kind "nonobject": a JSON list, string or number that is not false
\*   kind "MATCH", "NEW", "other": an object and its "decision"
\* details: "none" (missing or empty), "valid" (a dict), "nondict"
Decision(kind, incident_id, details) ==
    [ kind |-> kind, incident_id |-> incident_id, details |-> details ]

NoDecision == Decision("None", None, "none")

DetailKinds == {"none", "valid", "nondict"}

\* Every answer the model behind the client can give.
LlmAnswers ==
    { NoDecision, Decision("falsy", None, "none"), Decision("nonobject", None, "none"),
      Decision("other", None, "none") }
    \cup { Decision("MATCH", i, "none") : i \in IncidentIdInputs }
    \cup { Decision("NEW", None, d) : d \in DetailKinds }

\* get_incident_match_from_llm: with the google client any answer or an
\* exception; in the other branch the request itself raises (messages is built
\* as a set holding a dict), and the except clause gives None.
get_incident_match_from_llm(provider, candidate_incidents) ==
    IF provider = "none" \/ candidate_incidents = {} THEN {NoDecision}
    ELSE IF provider = "google" THEN LlmAnswers
    ELSE {NoDecision}

\* The categorized_details of create_new_incident_from_eido: "raise" stands
\* for any exception of the call.
create_new_incident_details(provider) ==
    IF provider = "google" THEN {"raise"} \cup DetailKinds ELSE {"raise"}

NoEido == [ id |-> None, location |-> None, timestamp |-> 0 ]

Crashed == {"KeyError", "AttributeError", "TypeError"}

NotAlive == {"none", "inactive", "stopped"} \cup Crashed

is_alive(t) == pc[t] \notin NotAlive

\* process_eido, line 280 on: the print reads eido['eido_id'].
Fallback == IF eido_id_key THEN "create_new" ELSE "KeyError"

\* process_eido, lines 263-281: where the decision takes the thread.
process_eido_branch(decision) ==
    IF decision.kind \in {"None", "falsy"} THEN Fallback
    ELSE IF decision.kind = "nonobject" THEN "AttributeError"
    ELSE IF decision.kind = "MATCH"
         THEN IF eido_id_key THEN "link_existing" ELSE "KeyError"
    ELSE IF decision.kind = "NEW"
         THEN IF ~eido_id_key THEN "KeyError"
              ELSE IF decision.details = "valid" THEN "link_new"
              ELSE IF decision.details = "nondict" THEN "TypeError"
              ELSE "create_new"
    ELSE Fallback

SetStore(db) ==
    /\ reports' = db.reports
    /\ incidents' = db.incidents

\* process_eido returns to the for loop of run; its locals are gone.
Return(t) ==
    /\ pc' = [pc EXCEPT ![t] = "for"]
    /\ eido' = [eido EXCEPT ![t] = NoEido]
    /\ potential_matches' = [potential_matches EXCEPT ![t] = {}]
    /\ llm_decision' = [llm_decision EXCEPT ![t] = NoDecision]

\* run, lines 285-287: without a client the loop is never entered.
run(t) ==
    /\ pc[t] = "run"
    /\ pc' = [pc EXCEPT ![t] = IF llm_provider = "none" THEN "inactive" ELSE "loop"]
    /\ UNCHANGED <<storeVars, controlVars, deployVars, eidos, eido,
                   potential_matches, llm_decision, failedCommit, linkCount, matchVars>>

\* run, lines 289-293: the while test and the fetch of the cycle.
run_cycle(t) ==
    /\ pc[t] = "loop"
    /\ IF stop_categorizer_event
       THEN /\ pc' = [pc EXCEPT ![t] = "stopped"]
            /\ UNCHANGED eidos
       ELSE /\ \E fetched \in fetch_uncategorized_eidos(Db) :
                 eidos' = [eidos EXCEPT ![t] = fetched]
            /\ pc' = [pc EXCEPT ![t] = "for"]
    /\ UNCHANGED <<storeVars, controlVars, deployVars, eido,
                   potential_matches, llm_decision, failedCommit, linkCount, matchVars>>

\* run, lines 295-299: the for loop takes the next record, or ends.
run_next_eido(t) ==
    /\ pc[t] = "for"
    /\ IF eidos[t] = <<>> \/ stop_categorizer_event
       THEN /\ pc' = [pc EXCEPT ![t] = "sleep"]
            /\ eidos' = [eidos EXCEPT ![t] = <<>>]
            /\ eido' = [eido EXCEPT ![t] = NoEido]
            /\ UNCHANGED failedCommit
       ELSE /\ pc' = [pc EXCEPT ![t] = "process"]
            /\ eido' = [eido EXCEPT ![t] = Head(eidos[t])]
            /\ eidos' = [eidos EXCEPT ![t] = Tail(eidos[t])]
            /\ failedCommit' = [failedCommit EXCEPT ![t] = @ \ {Head(eidos[t]).id}]
    /\ UNCHANGED <<storeVars, controlVars, deployVars, potential_matches, llm_decision,
                   linkCount, matchVars>>

\* run, lines 302-305: the sleep between two cycles.
run_sleep(t) ==
    /\ pc[t] = "sleep"
    /\ pc' = [pc EXCEPT ![t] = "loop"]
    /\ UNCHANGED <<storeVars, controlVars, deployVars, eidos, eido,
                   potential_matches, llm_decision, failedCommit, linkCount, matchVars>>

\* process_eido, lines 255-261: fetch the active incidents, filter them; with
\* no candidate the classifier is not asked.
process_eido(t) ==
    /\ pc[t] = "process"
    /\ \E active \in fetch_active_incidents(Db) :
         LET found == find_potential_matches(Db, eido[t], active)
         IN  /\ potential_matches' = [potential_matches EXCEPT ![t] = found]
             /\ pc' = [pc EXCEPT ![t] = IF found # {} THEN "llm_match" ELSE Fallback]
    /\ UNCHANGED <<storeVars, controlVars, deployVars, eidos, eido,
                   llm_decision, failedCommit, linkCount, matchVars>>

\* process_eido, lines 261-281: the classifier's answer and the branch on it.
process_eido_decide(t) ==
    /\ pc[t] = "llm_match"
    /\ \E d \in get_incident_match_from_llm(llm_provider, potential_matches[t]) :
         /\ llm_decision' = [llm_decision EXCEPT ![t] = d]
         /\ pc' = [pc EXCEPT ![t] = process_eido_branch(d)]
    /\ UNCHANGED <<storeVars, controlVars, deployVars, eidos, eido,
                   potential_matches, failedCommit, linkCount, matchVars>>

\* create_new_incident_from_eido: the details come from a second call of the
\* classifier; every exception is caught and the report is left as it is.
create_new_incident_from_eido(t) ==
    /\ pc[t] = "create_new"
    /\ \E d \in create_new_incident_details(llm_provider) :
         IF d = "valid"
         THEN /\ pc' = [pc EXCEPT ![t] = "link_new"]
              /\ UNCHANGED <<eido, potential_matches, llm_decision>>
         ELSE Return(t)
    /\ UNCHANGED <<storeVars, controlVars, deployVars, eidos, failedCommit, linkCount,
                   matchVars>>

\* The report's row carries the reference after the commit.
Linked(db, e) ==
    e \in DOMAIN db.reports /\ db.reports[e].status = "linked"

\* The request answers with the incident id (HTTP 200), not with 404 or 500.
link_returns(db, eido_id, incident_id, has_details, outcome) ==
    /\ eido_id \in DOMAIN db.reports
    /\ ~(incident_id = None /\ ~has_details)
    /\ outcome = "ok"

\* One link request of thread t for its record, and the history kept of it.
Commit(t, incident_id, has_details) ==
    \E outcome \in CommitOutcomes :
      LET e == eido[t].id
          done == link_returns(Db, e, incident_id, has_details, outcome)
      IN  /\ SetStore(link_eido_to_incident(Db, e, incident_id, has_details, outcome))
          /\ nextIncidentId' =
               IF LinkCreates(Db, e, incident_id, has_details, outcome)
               THEN nextIncidentId + 1 ELSE nextIncidentId
          /\ linkCount' = IF done THEN [linkCount EXCEPT ![e] = @ + 1] ELSE linkCount
          /\ failedCommit' = IF done THEN failedCommit
                             ELSE [failedCommit EXCEPT ![t] = @ \cup {e}]

\* link_eido_to_new_incident: POST /incidents/link_eido with incident_details.
link_eido_to_new_incident(t) ==
    /\ pc[t] = "link_new"
    /\ nextIncidentId <= MaxIncidents
    /\ Commit(t, None, TRUE)
    /\ Return(t)
    /\ UNCHANGED <<nextEidoId, now, controlVars, deployVars, eidos, matchVars>>

\* link_eido_to_existing_incident: POST /incidents/link_eido with the
\* incident_id of the decision.
link_eido_to_existing_incident(t) ==
    /\ pc[t] = "link_existing"
    /\ Commit(t, llm_decision[t].incident_id, FALSE)
    /\ Return(t)
    /\ UNCHANGED <<nextEidoId, now, controlVars, deployVars, eidos, matchVars>>


(***************************************************************************)
(* Thread control: idx-agent/api/main.py                                   *)
(***************************************************************************)
\* The slot the next threading.Thread takes.
FreeThreads == { t \in Threads : ~is_alive(t) }

NewThread == CHOOSE t \in FreeThreads : \A u \in FreeThreads : t <= u

\* start_categorizer(), reading `enabled` from the flag file: a new thread
\* when none is known or the known one has ended.
Starts(enabled) ==
    enabled /\ (categorizer_thread = None \/ ~is_alive(categorizer_thread))

start_categorizer(enabled) ==
    IF Starts(enabled)
    THEN /\ stop_categorizer_event' = FALSE
         /\ categorizer_thread' = NewThread
         /\ pc' = [pc EXCEPT ![NewThread] = "run"]
         /\ eidos' = [eidos EXCEPT ![NewThread] = <<>>]
         /\ eido' = [eido EXCEPT ![NewThread] = NoEido]
         /\ potential_matches' = [potential_matches EXCEPT ![NewThread] = {}]
         /\ llm_decision' = [llm_decision EXCEPT ![NewThread] = NoDecision]
         /\ failedCommit' = [failedCommit EXCEPT ![NewThread] = {}]
    ELSE UNCHANGED <<stop_categorizer_event, categorizer_thread, threadVars>>

\* Where a thread waits for the answer of a request: the HTTP requests time
\* out after 30 seconds, the classifier's call has no timeout.
InRequest == {"loop", "process", "llm_match", "create_new", "link_new", "link_existing"}

\* categorizer_thread.join(timeout=5) with the event set: a thread that is not
\* waiting for an answer reaches a test of the event and ends; one that is
\* waiting may outlive the join.
join(t) ==
    IF pc[t] \in InRequest THEN UNCHANGED threadVars
    ELSE /\ pc' = [pc EXCEPT ![t] = IF pc[t] = "run" /\ llm_provider = "none"
                                    THEN "inactive" ELSE "stopped"]
         /\ eidos' = [eidos EXCEPT ![t] = <<>>]
         /\ eido' = [eido EXCEPT ![t] = NoEido]
         /\ UNCHANGED <<potential_matches, llm_decision, failedCommit>>

\* stop_categorizer(): set the event, join for at most 5 seconds, forget the
\* thread whether or not it has ended.
stop_categorizer ==
    IF categorizer_thread # None /\ is_alive(categorizer_thread)
    THEN /\ stop_categorizer_event' = TRUE
         /\ join(categorizer_thread)
         /\ categorizer_thread' = None
    ELSE UNCHANGED <<stop_categorizer_event, categorizer_thread, threadVars>>

\* toggle_categorizer_endpoint with enable = true.  The model holds
\* MaxThreads threads: a start that needs one more is not taken.
toggle_enable ==
    /\ Starts(TRUE) => FreeThreads # {}
    /\ enabled_flag' = TRUE
    /\ start_categorizer(TRUE)
    /\ UNCHANGED <<storeVars, restart_flag, watcher, deployVars, linkCount, matchVars>>

\* toggle_categorizer_endpoint with enable = false.
toggle_disable ==
    /\ enabled_flag' = FALSE
    /\ stop_categorizer
    /\ UNCHANGED <<storeVars, restart_flag, watcher, deployVars, linkCount, matchVars>>

\* update_env_settings (idx-agent/api/endpoints.py) writes the restart flag.
update_env_settings ==
    /\ ~restart_flag
    /\ restart_flag' = TRUE
    /\ UNCHANGED <<storeVars, categorizer_thread, stop_categorizer_event, enabled_flag,
                   watcher, deployVars, threadVars, linkCount, matchVars>>

\* watch_for_restart_signal, first half: stop, remove the flag, sleep(1).
watch_for_restart_signal_stop ==
    /\ watcher = "poll"
    /\ restart_flag
    /\ stop_categorizer
    /\ restart_flag' = FALSE
    /\ watcher' = "start"
    /\ UNCHANGED <<storeVars, enabled_flag, deployVars, linkCount, matchVars>>

\* watch_for_restart_signal, second half: start_categorizer().
watch_for_restart_signal_start ==
    /\ watcher = "start"
    /\ Starts(enabled_flag) => FreeThreads # {}
    /\ start_categorizer(enabled_flag)
    /\ watcher' = "poll"
    /\ UNCHANGED <<storeVars, enabled_flag, restart_flag, deployVars, linkCount, matchVars>>

(***************************************************************************)
(* The requests of operators and of ingestion on the EIDO agent.           *)
(***************************************************************************)
StoreOnly == UNCHANGED <<controlVars, deployVars, threadVars, linkCount, matchVars>>

\* POST /ingest: create_eido_report(db, eido_data, source, incident_id=None).
create_eido_report(location) ==
    /\ nextEidoId <= MaxReports
    /\ reports' = Put(reports, nextEidoId, EidoReport(location, None))
    /\ nextEidoId' = nextEidoId + 1
    /\ UNCHANGED <<incidents, nextIncidentId, now>>
    /\ StoreOnly

ingest_eido == \E location \in Places \cup {None} : create_eido_report(location)

\* create_incident_from_eido, the one operation of the store that gives an
\* incident its locations; no endpoint under src calls it.
new_incident_from_eido ==
    /\ nextIncidentId <= MaxIncidents
    /\ \E location \in Places \cup {None} :
         SetStore(create_incident_from_eido(Db, location))
    /\ nextIncidentId' = nextIncidentId + 1
    /\ UNCHANGED <<nextEidoId, now>>
    /\ StoreOnly

\* POST /incidents/create
api_create_empty_incident ==
    /\ nextIncidentId <= MaxIncidents
    /\ SetStore(create_empty_incident(Db))
    /\ nextIncidentId' = nextIncidentId + 1
    /\ UNCHANGED <<nextEidoId, now>>
    /\ StoreOnly

\* POST /incidents/{incident_id}/close
close_incident ==
    /\ \E i \in DOMAIN incidents :
         /\ incidents[i].status # "closed"
         /\ SetStore(update_incident_status(Db, i, "closed"))
    /\ UNCHANGED <<nextEidoId, nextIncidentId, now>>
    /\ StoreOnly

\* DELETE /incidents/{incident_id}
api_delete_incident ==
    /\ \E i \in DOMAIN incidents : SetStore(delete_incident(Db, i))
    /\ UNCHANGED <<nextEidoId, nextIncidentId, now>>
    /\ StoreOnly

\* DELETE /eidos/{eido_id}
delete_single_eido ==
    /\ \E e \in DOMAIN reports : SetStore(delete_eido_report(Db, e))
    /\ UNCHANGED <<nextEidoId, nextIncidentId, now>>
    /\ StoreOnly

\* POST /eidos/bulk-actions, recategorize: any target id is taken.
api_bulk_recategorize ==
    /\ \E ids \in (SUBSET DOMAIN reports) \ {{}}, target \in IncidentIds \cup {UnknownIncidentId} :
         /\ bulk_recategorize_eidos(Db, ids, target) # Db
         /\ SetStore(bulk_recategorize_eidos(Db, ids, target))
    /\ UNCHANGED <<nextEidoId, nextIncidentId, now>>
    /\ StoreOnly

\* POST /incidents/link_eido from any client.
link_eido_to_incident_endpoint ==
    /\ \E e \in DOMAIN reports, i \in IncidentIdInputs, d \in BOOLEAN, o \in CommitOutcomes :
         /\ LinkCreates(Db, e, i, d, o) => nextIncidentId <= MaxIncidents
         /\ link_eido_to_incident(Db, e, i, d, o) # Db
         /\ SetStore(link_eido_to_incident(Db, e, i, d, o))
         /\ nextIncidentId' = IF LinkCreates(Db, e, i, d, o)
                              THEN nextIncidentId + 1 ELSE nextIncidentId
    /\ UNCHANGED <<nextEidoId, now>>
    /\ StoreOnly

\* POST /incidents/{incident_id}/tags
api_add_tag_to_incident ==
    /\ \E i \in DOMAIN incidents, tag \in Tags :
         /\ add_tag_to_incident(Db, i, tag) # Db
         /\ SetStore(add_tag_to_incident(Db, i, tag))
    /\ UNCHANGED <<nextEidoId, nextIncidentId, now>>
    /\ StoreOnly

\* POST /incidents/{incident_id}/rename
rename_incident_endpoint ==
    /\ \E i \in DOMAIN incidents, new_name \in Names :
         /\ rename_incident(Db, i, new_name) # Db
         /\ SetStore(rename_incident(Db, i, new_name))
    /\ UNCHANGED <<nextEidoId, nextIncidentId, now>>
    /\ StoreOnly

\* IncidentStore.save_incident with an incident of the store and any list of
\* locations in the caller's copy.
IncidentStore_save_incident ==
    /\ \E i \in DOMAIN incidents, p_locations \in SUBSET Places :
         SetStore(save_incident(Db, i, p_locations))
    /\ UNCHANGED <<nextEidoId, nextIncidentId, now>>
    /\ StoreOnly

\* Time passes: the next request comes more than one matching window later.
Tick ==
    /\ now + time_window_hours + 1 <= MaxClock
    /\ now' = now + time_window_hours + 1
    /\ UNCHANGED <<reports, incidents, nextEidoId, nextIncidentId>>
    /\ StoreOnly

(***************************************************************************)
(* The deterministic matcher: eido-agent/agent/matching.py                 *)
(*                                                                         *)
(* Here time is counted in minutes and a confidence in hundredths.  A text *)
(* is the set of its lowercase words.                                      *)
(***************************************************************************)
\* Bounds of the matcher's inputs.
MaxMatchIncidents == 2

\* eido-agent/config/settings.py
time_window_minutes == 60

match_distance_threshold_km == 1

similarity_threshold == 70

content_similarity_min_common_words == 2

\* find_match_for_report, active_statuses
active_statuses ==
    { "active", "updated", "received", "rcvd", "dispatched", "dsp",
      "acknowledged", "ack", "enroute", "enr", "onscene", "onscn" }

\* str.lower() on the statuses and words the inputs use.
lower(status) ==
    IF status = "Active" THEN "active"
    ELSE IF status = "Fire" THEN "fire"
    ELSE IF status \in {"Alpha", "ALPHA"} THEN "alpha"
    ELSE IF status = "Beta" THEN "beta"
    ELSE status

\* _get_meaningful_words, stop_words: the stop words the inputs use.
stop_words == { "the", "on", "no", "not", "a" }

\* Words of one character that are no digit.
single_letters == { "a", "x" }

\* _get_meaningful_words(text): nothing for a missing text or a placeholder,
\* else the words left without stop words and single letters.
_get_meaningful_words(text) ==
    LET lower_text == { lower(w) : w \in text }
    IN  IF text = {} THEN {}
        ELSE IF \/ {"no", "description"} \subseteq lower_text
                \/ {"not", "yet", "generated"} \subseteq lower_text
                \/ {"error", "generating"} \subseteq lower_text
             THEN {}
        ELSE { w \in lower_text : w \notin stop_words /\ w \notin single_letters }

\* geodesic(a, b).km for two points of one meridian.
geodesic_km(a, b) == Abs(a - b)

\* calculate_similarity, lines 73-107: a missing last_updated_at gives no
\* time match.
time_match(core_data, incident) ==
    /\ incident.last_updated_at # None
    /\ Abs(core_data.timestamp - incident.last_updated_at) <= time_window_minutes

\* calculate_similarity, lines 112-132: against the incident's first report.
external_id_match(core_data, incident) ==
    /\ core_data.external_incident_id # None
    /\ incident.reports_core_data # <<>>
    /\ incident.reports_core_data[1].external_incident_id # None
    /\ core_data.external_incident_id = incident.reports_core_data[1].external_incident_id

\* calculate_similarity, lines 136-170
location_match(core_data, incident) ==
    /\ core_data.coordinates # None
    /\ \E loc \in incident.locations :
         geodesic_km(core_data.coordinates, loc) <= match_distance_threshold_km

\* A content test that one common word satisfies.
content_match_one_word(core_data, incident) ==
    LET words == _get_meaningful_words(core_data.description)
        common(other) == Cardinality(words \cap _get_meaningful_words(other))
    IN  /\ words # {}
        /\ \/ common(incident.summary) >= 1
           \/ \E k \in 1..Len(incident.reports_core_data) :
                common(incident.reports_core_data[k].description) >= 1

\* calculate_similarity, lines 173-199: the summary first, then the
\* descriptions of the incident's reports.
content_match(core_data, incident) ==
    LET words == _get_meaningful_words(core_data.description)
        common(other) == Cardinality(words \cap _get_meaningful_words(other))
    IN  /\ words # {}
        /\ \/ common(incident.summary) >= content_similarity_min_common_words
           \/ \E k \in 1..Len(incident.reports_core_data) :
                common(incident.reports_core_data[k].description)
                  >= content_similarity_min_common_words

\* A scoring that tests the pairs before the triples.
score_table_pairs_first(ext, time, loc, content) ==
    IF ext /\ time THEN [score |-> 95, reason |-> "ExternalID+Time"]
    ELSE IF ext /\ loc THEN [score |-> 90, reason |-> "ExternalID+Location"]
    ELSE IF ext THEN [score |-> 88, reason |-> "ExternalID Only"]
    ELSE IF time /\ loc THEN [score |-> 75, reason |-> "Time+Location"]
    ELSE IF time /\ content THEN [score |-> 65, reason |-> "Time+Content"]
    ELSE IF loc /\ content THEN [score |-> 60, reason |-> "Location+Content"]
    ELSE IF time THEN [score |-> 40, reason |-> "Time Only"]
    ELSE IF loc THEN [score |-> 30, reason |-> "Location Only"]
    ELSE IF content THEN [score |-> 20, reason |-> "Content Only"]
    ELSE [score |-> 0, reason |-> "No Matching Factors"]

\* calculate_similarity, lines 205-249: the first row that applies.
score_table(ext, time, loc, content) ==
    IF ext /\ time /\ loc THEN [score |-> 98, reason |-> "ExternalID+Time+Location"]
    ELSE IF ext /\ time THEN [score |-> 95, reason |-> "ExternalID+Time"]
    ELSE IF ext /\ loc THEN [score |-> 90, reason |-> "ExternalID+Location"]
    ELSE IF ext THEN [score |-> 88, reason |-> "ExternalID Only"]
    ELSE IF time /\ loc /\ content THEN [score |-> 85, reason |-> "Time+Location+Content"]
    ELSE IF time /\ loc THEN [score |-> 75, reason |-> "Time+Location"]
    ELSE IF time /\ content THEN [score |-> 65, reason |-> "Time+Content"]
    ELSE IF loc /\ content THEN [score |-> 60, reason |-> "Location+Content"]
    ELSE IF time THEN [score |-> 40, reason |-> "Time Only"]
    ELSE IF loc THEN [score |-> 30, reason |-> "Location Only"]
    ELSE IF content THEN [score |-> 20, reason |-> "Content Only"]
    ELSE [score |-> 0, reason |-> "No Matching Factors"]

calculate_similarity(core_data, incident) ==
    score_table(external_id_match(core_data, incident), time_match(core_data, incident),
                location_match(core_data, incident), content_match(core_data, incident))

\* find_match_for_report, lines 271-277: the incidents it scores, in order.
active_incidents_to_check(incidents_list) ==
    SelectSeq(incidents_list, LAMBDA inc : lower(inc.status) \in active_statuses)

\* A loop body that takes every incident of a score above 0.
keep_last(best, incident_id, sim) ==
    IF sim.score > 0
    THEN [ id |-> incident_id, score |-> sim.score, reason |-> sim.reason ]
    ELSE best

\* find_match_for_report, lines 300-304: if score > highest_score, the
\* incident becomes the best match.
keep_best(best, incident_id, sim) ==
    IF sim.score > best.score
    THEN [ id |-> incident_id, score |-> sim.score, reason |-> sim.reason ]
    ELSE best

\* find_match_for_report, lines 298-310: the first incident of the highest
\* score above 0, found so far.
RECURSIVE best_match(_, _, _)
best_match(core_data, to_check, best) ==
    IF to_check = <<>> THEN best
    ELSE best_match(core_data, Tail(to_check),
                    keep_best(best, Head(to_check).incident_id,
                              calculate_similarity(core_data, Head(to_check))))

\* find_match_for_report(core_data, incidents) as (id, score, reason).
find_match_for_report(core_data, incidents_list) ==
    LET to_check == active_incidents_to_check(incidents_list)
        best == best_match(core_data, to_check,
                           [id |-> None, score |-> 0, reason |-> "No Match Found"])
    IN  IF to_check = <<>>
        THEN [ id |-> None, score |-> 0,
               reason |-> IF incidents_list # <<>> THEN "No Active Incidents Provided"
                          ELSE "No Incidents Provided" ]
        ELSE IF best.id # None /\ best.score >= similarity_threshold THEN best
        ELSE [ id |-> None, score |-> best.score,
               reason |-> IF best.score > 0 THEN "Score Below Threshold" ELSE best.reason ]

\* The reports and incidents the matcher is tried on.
Texts == { {}, {"fire", "on", "the", "roof"}, {"roof", "fire", "x"}, {"fire", "alarm"},
           {"no", "description"} }

CoreData(ts, coords, ext, text) ==
    [ timestamp |-> ts, coordinates |-> coords, external_incident_id |-> ext,
      description |-> text ]

MatchReports ==
    { CoreData(60, c, x, d) : c \in {None, 1}, x \in {None, 1}, d \in {{}, {"roof", "fire", "x"}} }

MatchIncident(id, status, updated, locs, summary, first_ext) ==
    [ incident_id |-> id, status |-> status, last_updated_at |-> updated,
      locations |-> locs, summary |-> summary,
      reports_core_data |-> << CoreData(updated, None, first_ext, {}) >> ]

MatchIncidents(id) ==
    { MatchIncident(id, st, u, l, s, x) :
        st \in {"open", "closed", "Active", "dispatched"},
        u \in {None, 30, 125},
        l \in {{}, {2}},
        s \in {{"fire", "on", "the", "roof"}},
        x \in {None, 1} }

NoResult == [ id |-> None, score |-> -1, reason |-> "" ]

NoSimilarity == [ incident |-> None, score |-> -1, reason |-> "" ]

NotMatching == UNCHANGED <<storeVars, controlVars, deployVars, threadVars, linkCount>>

\* Reports and incidents that differ in their texts: capitals, stop words,
\* single letters, placeholders, one or two words in common.
ReportTexts ==
    { {}, {"Fire", "on", "the", "roof"}, {"roof", "x", "a"},
      {"no", "description", "fire", "roof"}, {"error", "generating", "fire", "roof"} }

SummaryTexts ==
    { {}, {"fire", "on", "the", "roof"}, {"fire", "alarm"}, {"not", "yet", "generated", "fire", "roof"} }

HistoryTexts == { {}, {"roof", "fire", "x"}, {"fire", "alarm"} }

DescribedReports ==
    { CoreData(60, None, None, d) : d \in ReportTexts }

DescribedIncidents(id) ==
    { [ incident_id |-> id, status |-> "Active", last_updated_at |-> u,
        locations |-> {}, summary |-> s,
        reports_core_data |-> IF n = 0 THEN <<>>
                              ELSE [ k \in 1..n |-> CoreData(u, None, None,
                                                              IF k = n THEN d ELSE {}) ] ] :
        u \in {None, 30}, s \in SummaryTexts, d \in HistoryTexts, n \in 0..2 }

\* One more incident, with a summary and earlier reports, on the list handed
\* to the matcher.
m_add_described_incident ==
    /\ Len(m_incidents) < MaxMatchIncidents
    /\ \E inc \in DescribedIncidents(Len(m_incidents) + 1) :
         m_incidents' = Append(m_incidents, inc)
    /\ m_result' = NoResult
    /\ m_similarity' = NoSimilarity
    /\ UNCHANGED <<m_core, filterVars>>
    /\ NotMatching

\* One more incident on the list handed to the matcher.
m_add_incident ==
    /\ Len(m_incidents) < MaxMatchIncidents
    /\ \E inc \in MatchIncidents(Len(m_incidents) + 1) :
         m_incidents' = Append(m_incidents, inc)
    /\ m_result' = NoResult
    /\ m_similarity' = NoSimilarity
    /\ UNCHANGED <<m_core, filterVars>>
    /\ NotMatching

\* calculate_similarity is called on the report and the k-th incident.
m_calculate_similarity ==
    /\ m_result = NoResult
    /\ m_similarity = NoSimilarity
    /\ \E k \in 1..Len(m_incidents) :
         m_similarity' = [ incident |-> k,
                           score |-> calculate_similarity(m_core, m_incidents[k]).score,
                           reason |-> calculate_similarity(m_core, m_incidents[k]).reason ]
    /\ UNCHANGED <<m_core, m_incidents, m_result, filterVars>>
    /\ NotMatching

\* find_match_for_report is called.
m_find_match ==
    /\ m_result = NoResult
    /\ m_similarity = NoSimilarity
    /\ m_result' = find_match_for_report(m_core, m_incidents)
    /\ UNCHANGED <<m_core, m_incidents, m_similarity, filterVars>>
    /\ NotMatching

(***************************************************************************)
(* The local geocode store: services/local_geocoder.py.                    *)
(***************************************************************************)
\* Location names handed to the three functions: empty, blank, one name in
\* three spellings, another name.
LocationNames == {"", " ", "Alpha", " alpha ", "ALPHA", "Beta"}

\* str.strip() on the names the inputs use.
strip(location_name) ==
    IF location_name = " " THEN ""
    ELSE IF location_name = " alpha " THEN "alpha"
    ELSE location_name

\* key.strip().lower(), the form two names are compared in.
normalized(location_name) == lower(strip(location_name))

\* update_known_location, line 134.
valid_coordinates(lat, lon) == -90 <= lat /\ lat <= 90 /\ -180 <= lon /\ lon <= 180

\* What get_coordinates_from_local_store returns for None.
NoCoordinates == <<>>

\* The keys of the dict whose normal form is that of the name; the loops of
\* the three functions take the first of them.
matching_keys(data, location_name) ==
    { key \in DOMAIN data : normalized(key) = normalized(location_name) }

\* get_coordinates_from_local_store without the fallback, lines 85-107 and 124.
get_coordinates_from_local_store(data, location_name) ==
    IF location_name = "" THEN NoCoordinates
    ELSE IF matching_keys(data, location_name) = {} THEN NoCoordinates
    ELSE LET key == CHOOSE k \in matching_keys(data, location_name) : TRUE
         IN  <<data[key].lat, data[key].lon>>

\* update_known_location: the value returned and the dict saved. The entry
\* keeps the key already there, else the stripped name; notes and
\* last_updated are written too and read by nothing.
update_known_location(data, location_name, lat, lon, source) ==
    IF location_name = "" \/ ~valid_coordinates(lat, lon)
    THEN [ returns |-> FALSE, data |-> data ]
    ELSE LET existing == matching_keys(data, location_name)
             existing_key_to_update == IF existing = {} THEN ""
                                       ELSE CHOOSE k \in existing : TRUE
             key_to_use == IF existing_key_to_update # "" THEN existing_key_to_update
                           ELSE strip(location_name)
         IN  [ returns |-> TRUE,
               data |-> Put(data, key_to_use,
                            [ lat |-> lat, lon |-> lon, source |-> source ]) ]

\* remove_known_location: the value returned and the dict saved. Line 179,
\* "if key_to_remove and key_to_remove in locations_data": the empty key
\* counts as no key.
remove_known_location(data, location_name) ==
    IF location_name = "" THEN [ returns |-> FALSE, data |-> data ]
    ELSE LET existing == matching_keys(data, location_name)
             key_to_remove == IF existing = {} THEN ""
                              ELSE CHOOSE k \in existing : TRUE
         IN  IF existing # {} /\ key_to_remove # ""
             THEN [ returns |-> TRUE, data |-> Drop(data, key_to_remove) ]
             ELSE [ returns |-> FALSE, data |-> data ]

GeoCall(op, location_name, coordinates, returns) ==
    [ op |-> op, location_name |-> location_name, coordinates |-> coordinates,
      returns |-> returns ]

GeoIdle ==
    /\ locations_data = <<>>
    /\ g_call = GeoCall("none", "", NoCoordinates, FALSE)

NotGeocoding ==
    UNCHANGED <<storeVars, controlVars, deployVars, threadVars, linkCount,
                m_core, m_incidents, m_result, m_similarity,
                f_eido, f_incidents, f_config, f_result>>

\* A call of update_known_location, with coordinates in and out of range.
g_update_known_location ==
    /\ \E location_name \in LocationNames, lat \in {32, 33, 91}, lon \in {-117, 181} :
         LET done == update_known_location(locations_data, location_name, lat, lon,
                                           "manual")
         IN  /\ locations_data' = done.data
             /\ g_call' = GeoCall("update", location_name, <<lat, lon>>, done.returns)
    /\ NotGeocoding

\* A call of remove_known_location.
g_remove_known_location ==
    /\ \E location_name \in LocationNames :
         LET done == remove_known_location(locations_data, location_name)
         IN  /\ locations_data' = done.data
             /\ g_call' = GeoCall("remove", location_name, NoCoordinates, done.returns)
    /\ NotGeocoding

\* A call of get_coordinates_from_local_store; with use_llm_fallback a name
\* the store does not hold is geocoded and, when the answer is one, saved.
\* geocode_address_with_llm answers with nothing or with coordinates, in or
\* out of range.
g_get_coordinates ==
    /\ \E location_name \in LocationNames, use_llm_fallback \in BOOLEAN,
          llm_coords \in {NoCoordinates, <<33, -117>>, <<91, -117>>} :
         LET local == get_coordinates_from_local_store(locations_data, location_name)
             asked == /\ use_llm_fallback
                      /\ location_name # ""
                      /\ matching_keys(locations_data, location_name) = {}
         IN  IF asked /\ llm_coords # NoCoordinates
             THEN /\ locations_data' =
                       update_known_location(locations_data, location_name,
                           llm_coords[1], llm_coords[2], "llm_geocoded").data
                  /\ g_call' = GeoCall("get", location_name, llm_coords, TRUE)
             ELSE /\ locations_data' = locations_data
                  /\ g_call' = GeoCall("get", location_name, local,
                                       local # NoCoordinates)
    /\ NotGeocoding

(***************************************************************************)
(* The candidate filter on its own: find_potential_matches on any report   *)
(* and any list of incident records, under any configuration.              *)
(***************************************************************************)
\* Bound of the list handed to the filter.
MaxFilterIncidents == 2

\* Hours at which reports and incidents are stamped.
FilterTimes == {0, 3, 5}

\* self.time_window_hours: the default and a tighter one.
Windows == {1, time_window_hours}

\* self.distance_threshold_km: the default and a wider one.
Thresholds == {distance_threshold_km, 2 * distance_threshold_km}

FilterStamps == { Iso(t) : t \in FilterTimes } \cup {InvalidTime, MissingTime}

FilterReports == [ location : {None} \cup Places, timestamp : FilterStamps ]

\* An incident record and, beside it, the updated_at of its row; a row is
\* never updated before it is created.
FilterIncidents ==
    { [ created_at |-> c, updated_at |-> u, locations |-> l ] :
        c \in FilterStamps, u \in FilterTimes, l \in SUBSET Places }
    \ { inc \in [ created_at : FilterStamps, updated_at : FilterTimes,
                  locations : SUBSET Places ] :
           inc.created_at.kind = "iso" /\ inc.updated_at < inc.created_at.value }

NotCalled == [ kind |-> "none", exception |-> "", matches |-> {} ]

FilterIdle ==
    /\ f_eido = [ location |-> None, timestamp |-> MissingTime ]
    /\ f_incidents = <<>>
    /\ f_config = [ time_window_hours |-> time_window_hours,
                    distance_threshold_km |-> distance_threshold_km ]
    /\ f_result = NotCalled
    /\ GeoIdle

NotFiltering ==
    UNCHANGED <<storeVars, controlVars, deployVars, threadVars, linkCount,
                m_core, m_incidents, m_result, m_similarity>>

\* One more incident on the list handed to the filter.
f_add_incident ==
    /\ Len(f_incidents) < MaxFilterIncidents
    /\ f_result = NotCalled
    /\ \E inc \in FilterIncidents : f_incidents' = Append(f_incidents, inc)
    /\ UNCHANGED <<f_eido, f_config, f_result, geoVars>>
    /\ NotFiltering

\* find_potential_matches is called.
f_find_potential_matches ==
    /\ f_result = NotCalled
    /\ f_result' = find_potential_matches_with(f_eido, f_incidents,
                       f_config.time_window_hours, f_config.distance_threshold_km)
    /\ UNCHANGED <<f_eido, f_incidents, f_config, geoVars>>
    /\ NotFiltering

(***************************************************************************)
(* The system.                                                             *)
(***************************************************************************)
EmptyStore ==
    /\ reports = <<>>
    /\ incidents = <<>>
    /\ nextEidoId = 1
    /\ nextIncidentId = 1
    /\ now = 0

\* A database that holds one open incident made by create_incident_from_eido.
SeededStore ==
    /\ reports = <<>>
    /\ incidents = (1 :> [ status |-> "open", locations |-> {1}, name |-> "name",
                           tags |-> {}, created_at |-> 0, updated_at |-> 0 ])
    /\ nextEidoId = 1
    /\ nextIncidentId = 2
    /\ now = 0

\* startup_event: the flag file exists, the first thread is started and the
\* watcher polls.
startup_event ==
    /\ categorizer_thread = 1
    /\ stop_categorizer_event = FALSE
    /\ enabled_flag = TRUE
    /\ restart_flag = FALSE
    /\ watcher = "poll"
    /\ pc = [t \in Threads |-> IF t = 1 THEN "run" ELSE "none"]
    /\ eidos = [t \in Threads |-> <<>>]
    /\ eido = [t \in Threads |-> NoEido]
    /\ potential_matches = [t \in Threads |-> {}]
    /\ llm_decision = [t \in Threads |-> NoDecision]
    /\ failedCommit = [t \in Threads |-> {}]
    /\ linkCount = [e \in EidoIds |-> 0]

\* The IDX agent is not running.
NoCategorizer ==
    /\ categorizer_thread = None
    /\ stop_categorizer_event = FALSE
    /\ enabled_flag = TRUE
    /\ restart_flag = FALSE
    /\ watcher = "poll"
    /\ pc = [t \in Threads |-> "none"]
    /\ eidos = [t \in Threads |-> <<>>]
    /\ eido = [t \in Threads |-> NoEido]
    /\ potential_matches = [t \in Threads |-> {}]
    /\ llm_decision = [t \in Threads |-> NoDecision]
    /\ failedCommit = [t \in Threads |-> {}]
    /\ linkCount = [e \in EidoIds |-> 0]

\* The deployment fixes the classifier client and the shape of the records
\* the EIDO agent serves.
AnyDeployment ==
    /\ llm_provider \in {"none", "google", "openai"}
    /\ eido_id_key \in BOOLEAN

WorkingDeployment ==
    /\ llm_provider = "google"
    /\ eido_id_key = TRUE

MatcherIdle ==
    /\ m_core = CoreData(0, None, None, {})
    /\ m_incidents = <<>>
    /\ m_result = NoResult
    /\ m_similarity = NoSimilarity
    /\ FilterIdle

Categorizer ==
    \E t \in Threads :
      \/ run(t)
      \/ run_cycle(t)
      \/ run_next_eido(t)
      \/ run_sleep(t)
      \/ process_eido(t)
      \/ process_eido_decide(t)
      \/ create_new_incident_from_eido(t)
      \/ link_eido_to_new_incident(t)
      \/ link_eido_to_existing_incident(t)

\* The categorizer loop started at startup, the ingestion of reports, the
\* incidents made from EIDOs, their closing, and time.
Init == EmptyStore /\ startup_event /\ AnyDeployment /\ MatcherIdle

Next ==
    \/ Categorizer
    \/ ingest_eido
    \/ new_incident_from_eido
    \/ close_incident
    \/ Tick

Spec == Init /\ [][Next]_vars

\* The categorizer under toggle_categorizer_endpoint: threads are stopped and
\* started while reports come in.
InitControl == SeededStore /\ startup_event /\ WorkingDeployment /\ MatcherIdle

NextControl ==
    \/ Categorizer
    \/ toggle_enable
    \/ toggle_disable
    \/ ingest_eido

SpecControl == InitControl /\ [][NextControl]_vars

\* The EIDO agent alone, under every request on its store.
InitStore == EmptyStore /\ NoCategorizer /\ WorkingDeployment /\ MatcherIdle

NextStore ==
    \/ ingest_eido
    \/ new_incident_from_eido
    \/ api_create_empty_incident
    \/ close_incident
    \/ api_delete_incident
    \/ delete_single_eido
    \/ api_bulk_recategorize
    \/ link_eido_to_incident_endpoint
    \/ Tick

SpecStore == InitStore /\ [][NextStore]_vars

\* The EIDO agent under the requests that edit incidents that stay in the
\* store, from a store that holds an incident with a location.
InitEdit == SeededStore /\ NoCategorizer /\ WorkingDeployment /\ MatcherIdle

NextEdit ==
    \/ ingest_eido
    \/ close_incident
    \/ api_add_tag_to_incident
    \/ rename_incident_endpoint
    \/ IncidentStore_save_incident
    \/ api_bulk_recategorize
    \/ link_eido_to_incident_endpoint
    \/ Tick

SpecEdit == InitEdit /\ [][NextEdit]_vars

\* The matcher on every report and list of incidents of the input sets.
InitMatch ==
    /\ EmptyStore /\ NoCategorizer /\ WorkingDeployment
    /\ m_core \in MatchReports
    /\ m_incidents = <<>>
    /\ m_result = NoResult
    /\ m_similarity = NoSimilarity
    /\ FilterIdle

NextMatch == m_add_incident \/ m_calculate_similarity \/ m_find_match

SpecMatch == InitMatch /\ [][NextMatch]_vars

\* calculate_similarity on reports and incidents that differ in their texts.
InitContent ==
    /\ EmptyStore /\ NoCategorizer /\ WorkingDeployment
    /\ m_core \in DescribedReports
    /\ m_incidents = <<>>
    /\ m_result = NoResult
    /\ m_similarity = NoSimilarity
    /\ FilterIdle

NextContent == m_add_described_incident \/ m_calculate_similarity

SpecContent == InitContent /\ [][NextContent]_vars

\* The candidate filter on every report, list of incidents and configuration
\* of the input sets.
InitFilter ==
    /\ EmptyStore /\ NoCategorizer /\ WorkingDeployment
    /\ m_core = CoreData(0, None, None, {})
    /\ m_incidents = <<>>
    /\ m_result = NoResult
    /\ m_similarity = NoSimilarity
    /\ f_eido \in FilterReports
    /\ f_incidents = <<>>
    /\ f_config \in [ time_window_hours : Windows, distance_threshold_km : Thresholds ]
    /\ f_result = NotCalled
    /\ GeoIdle

NextFilter == f_add_incident \/ f_find_potential_matches

SpecFilter == InitFilter /\ [][NextFilter]_vars

\* The local geocode store under any sequence of calls.
InitGeo == EmptyStore /\ NoCategorizer /\ WorkingDeployment /\ MatcherIdle

NextGeo == g_update_known_location \/ g_remove_known_location \/ g_get_coordinates

SpecGeo == InitGeo /\ [][NextGeo]_vars

\* The categorizer under the restart flag of update_env_settings.
NextRestart ==
    \/ Categorizer
    \/ update_env_settings
    \/ watch_for_restart_signal_stop
    \/ watch_for_restart_signal_start
    \/ ingest_eido

SpecRestart == InitControl /\ [][NextRestart]_vars

(***************************************************************************)
(* Linking.                                                                *)
(***************************************************************************)
\* The step is a link request on report e that answers with an incident id.
LinkRequestOn(e, i, d) ==
    /\ link_returns(Db, e, i, d, "ok")
    /\ reports' = link_eido_to_incident(Db, e, i, d, "ok").reports
    /\ incidents' = link_eido_to_incident(Db, e, i, d, "ok").incidents

\* C1: linking is idempotent: a link request on a report that is already
\* linked changes neither the report nor the incidents.
C1_LinkIsIdempotent ==
    [][\A e \in DOMAIN reports, i \in IncidentIdInputs, d \in BOOLEAN :
         (Linked(Db, e) /\ LinkRequestOn(e, i, d)) => UNCHANGED <<reports, incidents>>]_vars

C3_LinkedRefIsOpenIncident ==
    [][\A e \in DOMAIN reports' :
         reports'[e].status = "linked" =>
           /\ reports'[e].incident_id_fk \in DOMAIN incidents'
           /\ (e \notin DOMAIN reports \/ reports[e].incident_id_fk # reports'[e].incident_id_fk)
                => incidents'[reports'[e].incident_id_fk].status = "open"]_vars

(***************************************************************************)
(* The matcher's eligible incidents.                                       *)
(***************************************************************************)
\* C4: find_match_for_report takes the incidents whose status is active: an
\* incident with status open whose score reaches the threshold makes the
\* function return a match, and an incident with status closed is never the
\* match returned.
C4_OpenEligibleClosedNot ==
    m_result # NoResult =>
      /\ (\E k \in 1..Len(m_incidents) :
            /\ m_incidents[k].status = "open"
            /\ calculate_similarity(m_core, m_incidents[k]).score >= similarity_threshold)
           => m_result.id # None
      /\ \A k \in 1..Len(m_incidents) :
           m_incidents[k].status = "closed" => m_result.id # m_incidents[k].incident_id

(***************************************************************************)
(* The categorizer's cycle.                                                *)
(***************************************************************************)
\* Where a thread holds no candidate set.
BetweenReports == {"none", "run", "loop", "for", "sleep", "process", "inactive", "stopped"}

\* C5: the engine keeps no incident state from one report or cycle to the
\* next and fetches the open incidents again for every report: the candidate
\* set computed for a report holds only incidents that are open in the store
\* at that moment, a closed incident stays closed, and so an incident closed
\* by an operator is in no candidate set computed after the close.
C5_ClosedNeverCandidate ==
    [][/\ \A t \in Threads :
            /\ pc'[t] \in BetweenReports => potential_matches'[t] = {}
            /\ (pc[t] = "process" /\ pc'[t] # "process") =>
                 \A i \in potential_matches'[t] :
                   i \in DOMAIN incidents /\ incidents[i].status = "open"
            /\ pc[t] # "process" =>
                 (potential_matches'[t] = potential_matches[t] \/ potential_matches'[t] = {})
       /\ \A i \in DOMAIN incidents :
            (incidents[i].status = "closed" /\ i \in DOMAIN incidents')
              => incidents'[i].status = "closed"]_vars

\* C5, its case: the classifier is about to be asked about a report while a
\* closed incident that is as near to the report in time and place as the
\* candidates is not among them.
C5_Witness ==
    \E t \in Threads, i \in DOMAIN incidents :
      /\ pc[t] = "llm_match"
      /\ potential_matches[t] # {}
      /\ incidents[i].status = "closed"
      /\ find_potential_matches(Db, eido[t], {i}) = {i}
      /\ i \notin potential_matches[t]

\* C6: when the classifier fails for a report that has candidates, the
\* processing of the report still ends with the report linked, unless the
\* link commit itself fails.
C6_ClassifierFailureStillLinks ==
    [][\A t \in Threads :
         ( /\ potential_matches[t] # {}
           /\ llm_decision[t].kind = "None"
           /\ pc[t] \in {"create_new", "link_new"}
           /\ pc'[t] = "for"
           /\ eido[t].id \notin failedCommit'[t] )
         => Linked(Db', eido[t].id)]_vars

\* C7: no error raised while one report is processed ends the loop: the
\* thread never dies of an exception.
C7_ErrorDoesNotAbortLoop ==
    \A t \in Threads : pc[t] \notin Crashed

C9_RunsWithoutClassifier ==
    \A t \in Threads : pc[t] # "inactive"

\* C10: a malformed answer of the classifier (JSON that is no object, or an
\* object whose decision is neither MATCH nor NEW) is taken as no answer: it
\* raises nothing out of the loop and no link is made on it.
C10_MalformedIsUnavailable ==
    \A t \in Threads :
      llm_decision[t].kind \in {"falsy", "nonobject", "other"} =>
        pc[t] \notin {"AttributeError", "TypeError", "link_existing", "link_new"}

\* C11: when the filter leaves no candidate for a report, the classifier is
\* not asked for a MATCH/NEW decision, and the processing of the report ends
\* with the report linked to an incident made for it, unless the link commit
\* itself fails.
C11_NoCandidateMakesNewIncident ==
    [][\A t \in Threads :
         /\ (pc[t] = "process" /\ potential_matches'[t] = {}) => pc'[t] # "llm_match"
         /\ ( /\ potential_matches[t] = {}
              /\ pc[t] \in {"create_new", "link_new"}
              /\ pc'[t] = "for"
              /\ eido[t].id \notin failedCommit'[t] )
            => /\ Linked(Db', eido[t].id)
               /\ reports'[eido[t].id].incident_id_fk \notin DOMAIN incidents]_vars

\* A link request on report e whose commits succeed and that leaves e linked
\* to an incident of the store.
LinkCommitted(e, i, d) ==
    /\ LinkRequestOn(e, i, d)
    /\ reports'[e].status = "linked"
    /\ reports'[e].incident_id_fk \in DOMAIN incidents'

\* C12: after a successful link commit for a report that has a location, the
\* locations of the target incident contain the report's point, for an
\* existing target and for an incident the request creates.
C12_LinkAppendsLocation ==
    [][\A e \in DOMAIN reports, i \in IncidentIdInputs, d \in BOOLEAN :
         (LinkCommitted(e, i, d) /\ reports[e].location # None)
           => reports[e].location \in incidents'[reports'[e].incident_id_fk].locations]_vars

\* C13: every successful link commit sets the updated_at of the target
\* incident to the time of the commit.
C13_LinkBumpsUpdatedAt ==
    [][\A e \in DOMAIN reports, i \in IncidentIdInputs, d \in BOOLEAN :
         LinkCommitted(e, i, d)
           => incidents'[reports'[e].incident_id_fk].updated_at = now]_vars

Near(i) ==
    \E loc \in f_incidents[i].locations :
      haversine(f_eido.location, loc) <= f_config.distance_threshold_km

\* C15: the filter keeps an incident only if the report's timestamp is within
\* the time window of the incident's last update: for a report with location
\* and timestamp, an incident is kept exactly when its updated_at is within
\* the window and the spatial rule holds, whenever it was created.
C15_AnchorIsLastUpdate ==
    (f_result.kind = "return" /\ f_eido.location # None /\ f_eido.timestamp.kind = "iso")
      => \A i \in DOMAIN f_incidents :
           f_incidents[i].created_at.kind = "iso"
             => ( i \in f_result.matches
                    <=> /\ Abs(f_eido.timestamp.value - f_incidents[i].updated_at)
                             <= f_config.time_window_hours
                        /\ Near(i) )

\* C16: a missing or unparseable timestamp, of the report or of an incident,
\* makes the filter reject the incidents it affects and return: no exception
\* leaves find_potential_matches, and the incidents with valid timestamps are
\* still evaluated.
C16_BadTimestampFailsClosed ==
    f_result # NotCalled
      => /\ f_result.kind = "return"
         /\ \A i \in DOMAIN f_incidents :
              /\ (f_eido.timestamp.kind # "iso" \/ f_incidents[i].created_at.kind # "iso")
                   => i \notin f_result.matches
              /\ ( /\ f_eido.location # None
                   /\ f_eido.timestamp.kind = "iso"
                   /\ f_incidents[i].created_at.kind = "iso"
                   /\ in_time_window(f_eido.timestamp.value,
                                     f_incidents[i].created_at.value,
                                     f_config.time_window_hours)
                   /\ Near(i) )
                   => i \in f_result.matches

\* C17: for a report without location the spatial rule is skipped: an
\* incident within the time window, of its creation and of its last update,
\* is kept.
C17_NoLocationSkipsSpatialRule ==
    (f_result.kind = "return" /\ f_eido.location = None /\ f_eido.timestamp.kind = "iso")
      => \A i \in DOMAIN f_incidents :
           ( /\ f_incidents[i].created_at.kind = "iso"
             /\ in_time_window(f_eido.timestamp.value, f_incidents[i].created_at.value,
                               f_config.time_window_hours)
             /\ in_time_window(f_eido.timestamp.value, f_incidents[i].updated_at,
                               f_config.time_window_hours) )
             => i \in f_result.matches

\* C18: the filter is monotone: on the same report and incidents, a smaller
\* time window or a smaller distance threshold gives a subset of the
\* candidates the larger values give.
C18_FilterIsMonotone ==
    f_result # NotCalled
      => \A w \in Windows, d \in Thresholds :
           (w <= f_config.time_window_hours /\ d <= f_config.distance_threshold_km)
             => find_potential_matches_with(f_eido, f_incidents, w, d).matches
                  \subseteq f_result.matches

\* Tighter values keep some of the candidates and drop others.
C18_Witness ==
    /\ f_result.kind = "return"
    /\ \E w \in Windows, d \in Thresholds :
         /\ w < f_config.time_window_hours
         /\ d < f_config.distance_threshold_km
         /\ find_potential_matches_with(f_eido, f_incidents, w, d).matches # {}
         /\ find_potential_matches_with(f_eido, f_incidents, w, d).matches # f_result.matches

\* The priority table of the matcher, highest confidence first: the
\* evidence a row asks for, its confidence and its reason.
Row(evidence, score, reason) == [ evidence |-> evidence, score |-> score, reason |-> reason ]

PriorityTable ==
    << Row({"ext", "time", "loc"}, 98, "ExternalID+Time+Location"),
       Row({"ext", "time"}, 95, "ExternalID+Time"),
       Row({"ext", "loc"}, 90, "ExternalID+Location"),
       Row({"ext"}, 88, "ExternalID Only"),
       Row({"time", "loc", "content"}, 85, "Time+Location+Content"),
       Row({"time", "loc"}, 75, "Time+Location"),
       Row({"time", "content"}, 65, "Time+Content"),
       Row({"loc", "content"}, 60, "Location+Content"),
       Row({"time"}, 40, "Time Only"),
       Row({"loc"}, 30, "Location Only"),
       Row({"content"}, 20, "Content Only"),
       Row({}, 0, "No Matching Factors") >>

FirstApplicableRow(evidence) ==
    PriorityTable[CHOOSE k \in 1..Len(PriorityTable) :
                    /\ PriorityTable[k].evidence \subseteq evidence
                    /\ \A j \in 1..(k - 1) : ~(PriorityTable[j].evidence \subseteq evidence)]

\* The evidence flags of a report against an incident.
Evidence(core_data, incident) ==
    { f \in {"ext", "time", "loc", "content"} :
        \/ f = "ext" /\ external_id_match(core_data, incident)
        \/ f = "time" /\ time_match(core_data, incident)
        \/ f = "loc" /\ location_match(core_data, incident)
        \/ f = "content" /\ content_match(core_data, incident) }

ActiveScores ==
    { calculate_similarity(m_core, m_incidents[k]).score :
        k \in { j \in 1..Len(m_incidents) : lower(m_incidents[j].status) \in active_statuses } }

MaxScore(S) == CHOOSE x \in S : \A y \in S : y <= x

CommonWords(a, b) == Cardinality(_get_meaningful_words(a) \cap _get_meaningful_words(b))

\* The reasons of the rows of the table that ask for content.
ContentReasons ==
    { "Time+Location+Content", "Time+Content", "Location+Content", "Content Only" }

C22_FetchedReportsHandledOnce ==
    \A t \in Threads :
      /\ \A i, j \in 1..Len(eidos[t]) : i # j => eidos[t][i].id # eidos[t][j].id
      /\ \A i \in 1..Len(eidos[t]) : eidos[t][i].id # eido[t].id
      /\ pc[t] \in Crashed => eidos[t] = <<>>

\* C23: once the engine is toggled off, a loop finishes at most the report it
\* is processing: while the engine stays disabled no loop takes another
\* report and none fetches a new cycle.
C23_DisabledProcessesNothing ==
    [][\A t \in Threads :
         (~enabled_flag /\ ~enabled_flag')
           => /\ ~(pc[t] = "for" /\ pc'[t] = "process")
              /\ ~(pc[t] = "loop" /\ pc'[t] = "for")]_vars

\* C24: a classifier call that is given up (it raised, at a timeout or
\* otherwise, and the call's except clause gave None) does not stall the
\* loop: the loop goes on with the report and stays alive for later reports
\* and later cycles.
C24_AbandonedCallKeepsLoopAlive ==
    [][\A t \in Threads :
         (pc[t] = "llm_match" /\ llm_decision'[t] = NoDecision)
           => pc'[t] \notin Crashed]_vars

\* C25: the local geocode store round trip. After update_known_location has
\* accepted (name, lat, lon), get_coordinates_from_local_store gives (lat, lon)
\* for the name in any spelling that differs in case or outer blanks only;
\* after remove_known_location(name), for a name update accepts, it gives
\* None for the name and no key of the store matches it.
C25_GeocodeRoundTrip ==
    /\ (g_call.op = "update" /\ g_call.returns)
         => \A n \in LocationNames \ {""} :
              normalized(n) = normalized(g_call.location_name)
                => get_coordinates_from_local_store(locations_data, n)
                     = g_call.coordinates
    /\ (g_call.op = "remove" /\ g_call.location_name # "")
         => /\ get_coordinates_from_local_store(locations_data, g_call.location_name)
                 = NoCoordinates
            /\ matching_keys(locations_data, g_call.location_name) = {}

\* C26: at most one categorizer loop thread is alive at any time, whatever
\* the sequence of startup, toggle and restart signals.
C26_OneLoopThread ==
    Cardinality({ t \in Threads : is_alive(t) }) <= 1

\* C27: when a link commit makes a new incident for a report with location L
\* and timestamp T, any later report at L whose timestamp is within the time
\* window of T has that incident among its candidates.
C27_NewIncidentIsCandidateAtItsPlace ==
    [][\A e \in DOMAIN reports :
         ( /\ LinkCommitted(e, None, TRUE)
           /\ reports[e].location # None
           /\ reports'[e].incident_id_fk \notin DOMAIN incidents )
         => \A ts \in 0..MaxClock :
              (ts >= reports[e].timestamp
                 /\ ts - reports[e].timestamp <= time_window_hours)
              => reports'[e].incident_id_fk
                   \in find_potential_matches(Db',
                         [ id |-> None, location |-> reports[e].location,
                           timestamp |-> ts ],
                         get_all_incidents(Db', "open"))]_vars

C29_LinkNewIsAtomic ==
    [][\A t \in Threads :
         (pc[t] = "link_new" /\ pc'[t] = "for")
           => /\ \A i \in (DOMAIN incidents') \ (DOMAIN incidents) :
                   /\ eido[t].id \in DOMAIN reports'
                   /\ reports'[eido[t].id].status = "linked"
                   /\ reports'[eido[t].id].incident_id_fk = i
              /\ eido[t].id \in failedCommit'[t]
                   => DOMAIN incidents' = DOMAIN incidents]_vars

\* C30: in every state of the report store a report has status "linked" if
\* and only if its incident reference is set; an uncategorized report carries
\* no reference.
C30_LinkedIffReferenceSet ==
    \A e \in DOMAIN reports :
      /\ reports[e].status \in {"linked", "uncategorized"}
      /\ reports[e].status = "linked" <=> reports[e].incident_id_fk # None

\* C30, its case: one report has been linked to an incident of the store
\* while another is still uncategorized.
C30_Witness ==
    \E e1, e2 \in DOMAIN reports :
      /\ reports[e1].status = "linked"
      /\ reports[e1].incident_id_fk \in DOMAIN incidents
      /\ reports[e2].status = "uncategorized"

=============================================================================
